---- MODULE Spec2Model ----
(***************************************************************************)
(* Model of server.js of puppeteer-batch: the POST /batch-scrape handler,  *)
(* the concurrency limiter and the per-URL pipeline processOne.            *)
(*                                                                         *)
(* One action is one turn of the Node.js event loop that changes program   *)
(* state: the request handler, or the continuation that runs when an       *)
(* awaited promise settles (an external reply, a deadline timer, the       *)
(* promise returned by processOne).  Continuations that are ready at the   *)
(* same time may run in any order.                                         *)
(*                                                                         *)
(* Values.  A JSON element of the request is [t, v]: its JSON type and the *)
(* string JavaScript coerces it to (String(x)).  A text (page text, title, *)
(* scraped_text) is [len, strong, generic]: its length and whether it      *)
(* contains one of the "strong" / "generic" phrases of looksLikeCaptcha.   *)
(*                                                                         *)
(* Specifications.  Spec takes a request through the handler, the limiter  *)
(* and processOne, with puppeteerFetch as one step.  SpecFetch takes       *)
(* puppeteerFetch step by step (getBrowser, withPage, the page, the        *)
(* attempts of the extraction) after the warm-up of app.listen.  SpecClock *)
(* adds the clock and the timers of hardCap.  SpecApivoid applies          *)
(* apivoidCheck to one reply.  SpecExit adds what becomes of the process   *)
(* when the handler's promise rejects.                                     *)
(***************************************************************************)
EXTENDS Naturals, Integers, Sequences, FiniteSets, TLC

\* ---------------------------------------------------------------- config
MAX_URLS_PER_REQUEST == 50
CONCURRENCY == 2
TEXT_MAX_CHARS == 200000
MIN_TEXT_FOR_OK == 300
PER_URL_TIMEOUT_MS == 60000
\* the longest title scraperApiFetch keeps
TITLE_MAX_CHARS == 300

\* ---------------------------------------------------------------- bounds
\* longest request array enumerated element by element
MaxLen == 2

\* ---------------------------------------------------------------- values
Str(s) == [t |-> "string", v |-> s]

NoElem == [t |-> "", v |-> ""]

Text(n, s, g) == [len |-> n, strong |-> s, generic |-> g]

\* the empty string ""
EmptyText == Text(0, FALSE, FALSE)

Min(a, b) == IF a < b THEN a ELSE b

\* s.slice(0, n); the phrases of the texts enumerated below lie in the kept part
Slice(txt, n) == [txt EXCEPT !.len = Min(@, n)]

\* ------------------------------------------------------------------ utils
\* new URL(s) for the strings the requests below are made of:
\* the parsed URL, or threw = TRUE for the TypeError of an unparsable string.
NewURL(s) ==
  CASE s = "http://a.com"    -> [threw |-> FALSE, protocol |-> "http:", hostname |-> "a.com", href |-> "http://a.com/"]
    [] s = "http://a.com/"   -> [threw |-> FALSE, protocol |-> "http:", hostname |-> "a.com", href |-> "http://a.com/"]
    [] s = "https://B.org/x" -> [threw |-> FALSE, protocol |-> "https:", hostname |-> "b.org", href |-> "https://b.org/x"]
    [] s = "https://b.org/x" -> [threw |-> FALSE, protocol |-> "https:", hostname |-> "b.org", href |-> "https://b.org/x"]
    [] s = "http://c.net/p"  -> [threw |-> FALSE, protocol |-> "http:", hostname |-> "c.net", href |-> "http://c.net/p"]
    [] s = "ftp://c.net/f"   -> [threw |-> FALSE, protocol |-> "ftp:", hostname |-> "c.net", href |-> "ftp://c.net/f"]
    [] s = "http://foobar"   -> [threw |-> FALSE, protocol |-> "http:", hostname |-> "foobar", href |-> "http://foobar/"]
    [] s = "http://123"      -> [threw |-> FALSE, protocol |-> "http:", hostname |-> "0.0.0.123", href |-> "http://0.0.0.123/"]
    [] OTHER                 -> [threw |-> TRUE, protocol |-> "", hostname |-> "", href |-> ""]

\* normalizeUrl(u): the canonical href, or "" for null
normalizeUrl(u) ==
  LET url == NewURL(u.v)
  IN IF url.threw THEN ""
     ELSE IF url.protocol \notin {"http:", "https:"} THEN ""
     ELSE url.href

\* hostOnly(u) for a string u: the hostname, or "" for null
hostOnly(s) ==
  LET url == NewURL(s)
  IN IF ~url.threw THEN url.hostname
     ELSE LET url2 == NewURL("http://" \o s)
          IN IF ~url2.threw THEN url2.hostname ELSE ""

looksLikeCaptcha(text, title) ==
  IF title.strong \/ text.strong THEN TRUE
  ELSE LET mentionsGeneric == title.generic \/ text.generic
           tooShort == text.len < MIN_TEXT_FOR_OK
       IN mentionsGeneric /\ tooShort

\* ------------------------------------------------------- external calls
\* What the APIVoid endpoint can do with one request: the transport fails
\* (axios rejects), or it answers with an HTTP status and a JSON body.
ApivoidReplies ==
  {[threw |-> TRUE, message |-> "timeout of 12000ms exceeded", status |-> 0, error |-> "",
    a_records_found |-> FALSE, parked_domain |-> FALSE]}
  \cup [threw : {FALSE}, message : {""}, status : {200, 401},
        error : {"", "Domain name is not valid", "Insufficient API credits"},
        a_records_found : BOOLEAN, parked_domain : BOOLEAN]

\* /domain name is not valid/i.test(msg)
MatchesNotValid(msg) == msg \in {"Domain name is not valid"}

\* /insufficient|credit|api key|unauthorized|forbidden/i.test(msg)
MatchesKeyOrCredit(msg) == msg \in {"Insufficient API credits"}

ApiFail(reason, text) == [kind |-> "fail", reason |-> reason, text |-> text]

ApiOk == [kind |-> "ok", reason |-> "", text |-> ""]

\* a slip: the parked flag is looked at before the A records
ApivoidRequestParkedFirst(host, reply) ==
  IF host = "" THEN ApiFail("wrong_format", "Host could not be derived from the URL.")
  ELSE IF reply.threw
    THEN ApiFail("apivoid_api_key", "APIVoid request failed: " \o reply.message)
  ELSE IF reply.status >= 400 \/ reply.error # ""
    THEN LET msg == IF reply.error # "" THEN reply.error
                    ELSE "APIVoid HTTP " \o ToString(reply.status)
         IN IF MatchesNotValid(msg)
              THEN ApiFail("wrong_format",
                           "The input url domain is not valid for APIVoid (" \o msg \o ").")
            ELSE ApiFail("apivoid_api_key", msg)
  ELSE IF reply.parked_domain
    THEN ApiFail("parked_domain",
                 "The domain appeared to be a parked domain on the Apivoid check.")
  ELSE IF ~reply.a_records_found
    THEN ApiFail("a_records_not_found",
                 "The domain appeared to be offline on the Apivoid check.")
  ELSE ApiOk

\* apivoidCheck(host) past its check of the key: the host, then the reply
ApivoidRequest(host, reply) ==
  IF host = "" THEN ApiFail("wrong_format", "Host could not be derived from the URL.")
  ELSE IF reply.threw
    THEN ApiFail("apivoid_api_key", "APIVoid request failed: " \o reply.message)
  ELSE IF reply.status >= 400 \/ reply.error # ""
    THEN LET msg == IF reply.error # "" THEN reply.error
                    ELSE "APIVoid HTTP " \o ToString(reply.status)
         IN IF MatchesNotValid(msg)
              THEN ApiFail("wrong_format",
                           "The input url domain is not valid for APIVoid (" \o msg \o ").")
            ELSE IF MatchesKeyOrCredit(msg) THEN ApiFail("apivoid_api_key", msg)
            ELSE ApiFail("apivoid_api_key", msg)
  ELSE IF ~reply.a_records_found
    THEN ApiFail("a_records_not_found",
                 "The domain appeared to be offline on the Apivoid check.")
  ELSE IF reply.parked_domain
    THEN ApiFail("parked_domain",
                 "The domain appeared to be a parked domain on the Apivoid check.")
  ELSE ApiOk

\* a slip: the missing key is not noticed and the request is sent without it
apivoidCheckKeyUnchecked(host, key, reply) == ApivoidRequest(host, reply)

\* apivoidCheck(host), given the APIVOID_KEY setting and the endpoint's reply
apivoidCheck(host, key, reply) ==
  IF key = "" THEN ApiFail("apivoid_api_key", "APIVoid API key is missing.")
  ELSE ApivoidRequest(host, reply)

\* whether apivoidCheck reaches axios.post
ApivoidCallsNetwork(host, key) == key # "" /\ host # ""

\* ---------------------------------------------------------------- pages
TitlePlain == Text(12, FALSE, FALSE)

\* "Attention Required! | Cloudflare"
TitleBlocked == Text(32, TRUE, FALSE)

\* 300 characters of ordinary text
TextLong == Text(MIN_TEXT_FOR_OK, FALSE, FALSE)

\* 299 characters of ordinary text
TextShort == Text(MIN_TEXT_FOR_OK - 1, FALSE, FALSE)

\* 299 characters mentioning "captcha"
TextShortCaptcha == Text(MIN_TEXT_FOR_OK - 1, FALSE, TRUE)

\* 300 characters mentioning "captcha"
TextLongCaptcha == Text(MIN_TEXT_FOR_OK, FALSE, TRUE)

\* 300 characters holding "verify you are human"
TextBlocked == Text(MIN_TEXT_FOR_OK, TRUE, FALSE)

\* the fetch's return value; httpStatus is the status printed, or "null"
Fetched(ok, reason, text, httpStatus, title, content) ==
  [ok |-> ok, reason |-> reason, text |-> text, httpStatus |-> httpStatus,
   title |-> title, content |-> content]

\* What one run of the headless browser can do: page.goto throws, yields no
\* response, or yields a response with a status; then title and innerText are
\* read, or reading them throws an error that is not transient.
PuppeteerRuns ==
  {[gotoThrew |-> TRUE, message |-> "net::ERR_NAME_NOT_RESOLVED", hasResp |-> FALSE,
    status |-> 0, extractThrew |-> FALSE, title |-> EmptyText, text |-> EmptyText],
   [gotoThrew |-> FALSE, message |-> "", hasResp |-> FALSE,
    status |-> 0, extractThrew |-> FALSE, title |-> EmptyText, text |-> EmptyText],
   [gotoThrew |-> FALSE, message |-> "", hasResp |-> TRUE,
    status |-> 404, extractThrew |-> FALSE, title |-> TitlePlain, text |-> TextShort],
   [gotoThrew |-> FALSE, message |-> "Protocol error (Runtime.callFunctionOn)", hasResp |-> TRUE,
    status |-> 200, extractThrew |-> TRUE, title |-> EmptyText, text |-> EmptyText]}
  \cup {[gotoThrew |-> FALSE, message |-> "", hasResp |-> TRUE, status |-> 200,
          extractThrew |-> FALSE, title |-> pg[1], text |-> pg[2]] :
        pg \in {<<TitlePlain, TextLong>>, <<TitlePlain, EmptyText>>,
                 <<TitlePlain, TextShort>>,
                 <<TitlePlain, TextShortCaptcha>>, <<TitlePlain, TextLongCaptcha>>,
                 <<TitleBlocked, TextLong>>, <<TitlePlain, TextBlocked>>}}

\* puppeteerFetch(url) on one run of the browser: what the returned promise
\* settles to, a value (threw = FALSE) or an exception.
puppeteerFetch(url, run) ==
  IF run.gotoThrew THEN [threw |-> TRUE, message |-> run.message, value |-> Fetched(FALSE, "", "", "null", EmptyText, EmptyText)]
  ELSE IF ~run.hasResp \/ run.status = 0 \/ run.status >= 400
    THEN [threw |-> FALSE, message |-> "",
          value |-> Fetched(FALSE, "offline_on_puppeteer",
                            "HTTP " \o (IF run.hasResp THEN ToString(run.status) ELSE "no_response"),
                            IF run.hasResp THEN ToString(run.status) ELSE "null",
                            run.title, EmptyText)]
  ELSE IF run.extractThrew
    THEN [threw |-> TRUE, message |-> run.message, value |-> Fetched(FALSE, "", "", "null", EmptyText, EmptyText)]
  ELSE [threw |-> FALSE, message |-> "",
        value |-> Fetched(TRUE, "", "", ToString(run.status), run.title,
                          Slice(run.text, TEXT_MAX_CHARS))]

\* What the ScraperAPI endpoint can do with one request: the transport fails,
\* or it answers with a status and a body.  isString: typeof resp.data is
\* "string"; visible: the body with its tags stripped (htmlToText); title: the
\* stripped content of its first <title> element, "" when it has none.
ScraperReplies ==
  {[threw |-> TRUE, message |-> "timeout of 40000ms exceeded", status |-> 0,
    isString |-> FALSE, visible |-> EmptyText, title |-> EmptyText],
   [threw |-> FALSE, message |-> "", status |-> 500,
    isString |-> TRUE, visible |-> TextShort, title |-> EmptyText],
   [threw |-> FALSE, message |-> "", status |-> 200,
    isString |-> FALSE, visible |-> TextLong, title |-> TitlePlain]}
  \cup {[threw |-> FALSE, message |-> "", status |-> 200, isString |-> TRUE,
          visible |-> pg[2], title |-> pg[1]] :
        pg \in {<<TitlePlain, TextLong>>, <<EmptyText, EmptyText>>,
                 <<TitlePlain, TextShortCaptcha>>, <<TitleBlocked, TextBlocked>>}}

\* scraperApiFetch(url), given the SCRAPERAPI_KEY setting and the reply
scraperApiFetch(url, key, reply) ==
  IF key = ""
    THEN Fetched(FALSE, "scraperapi", "ScraperAPI key is missing.", "null", EmptyText, EmptyText)
  ELSE IF reply.threw
    THEN Fetched(FALSE, "scraperapi", "ScraperAPI request failed: " \o reply.message,
                 "null", EmptyText, EmptyText)
  ELSE LET text == IF reply.isString THEN Slice(reply.visible, TEXT_MAX_CHARS) ELSE EmptyText
           title == IF reply.isString THEN Slice(reply.title, TITLE_MAX_CHARS) ELSE EmptyText
       IN IF reply.status >= 400
            THEN Fetched(FALSE, "scraperapi", "ScraperAPI HTTP " \o ToString(reply.status),
                         ToString(reply.status), title, EmptyText)
          ELSE Fetched(TRUE, "", "", ToString(reply.status), title, text)

\* ------------------------------------------------------------- requests
\* the strings request arrays are made of
Alphabet == {Str("http://a.com"), Str("https://B.org/x"), Str("foobar")}

\* the number 123
Num123 == [t |-> "number", v |-> "123"]

\* the array ["http://a.com"]; String(["http://a.com"]) is "http://a.com"
ArrA == [t |-> "array", v |-> "http://a.com"]

\* three URLs, so that a task that waits on the network is queued behind two
\* others that do; two URLs, the first repeated at the end; and a string
\* with a scheme that is not http(s)
WideArrays ==
  {<<Str("http://a.com"), Str("https://B.org/x"), Str("http://c.net/p")>>,
   <<Str("http://a.com"), Str("https://B.org/x"), Str("http://a.com")>>,
   <<Str("ftp://c.net/f"), Str("http://a.com")>>}

\* arrays that hold an element that is not a string
MixedArrays ==
  {<<Num123>>, <<ArrA>>, <<Str("http://a.com"), Num123>>, <<ArrA, ArrA>>,
   <<Num123, Str("foobar"), Num123>>}

\* n distinct strings, none of them a URL
Bulk(n) == [i \in 1..n |-> Str("bulk" \o ToString(i))]

\* arrays at the cap, one over it, and the same with a repeated string
BulkArrays ==
  {Bulk(MAX_URLS_PER_REQUEST), Bulk(MAX_URLS_PER_REQUEST + 1),
   Bulk(MAX_URLS_PER_REQUEST) \o <<Str("bulk1")>>,
   Bulk(MAX_URLS_PER_REQUEST + 1) \o <<Str("bulk1")>>}

SmallArrays == UNION {[1..n -> Alphabet] : n \in 0..MaxLen}

\* req.body: urls is an array, a string, or missing
Bodies ==
  {[kind |-> "array", urls |-> a] : a \in SmallArrays \cup WideArrays \cup MixedArrays \cup BulkArrays}
  \cup {[kind |-> "string", urls |-> <<>>], [kind |-> "undefined", urls |-> <<>>]}

\* SameValueZero of two elements at different places of the parsed body:
\* primitives by value, objects by identity
SameValueZero(a, b) == a.t \in {"string", "number"} /\ a = b

\* [...new Set(list)]: each value once, in insertion order
RECURSIVE SetOf(_, _)
SetOf(list, acc) ==
  IF list = <<>> THEN acc
  ELSE IF \E k \in 1..Len(acc) : SameValueZero(acc[k], Head(list))
         THEN SetOf(Tail(list), acc)
       ELSE SetOf(Tail(list), Append(acc, Head(list)))

\* a slip: the list is used as it came
UniqueKeepsAll(list) == list

Unique(list) == SetOf(list, <<>>)

\* a slip: the cap is applied to the list as it came
OverCapRaw(list) == Len(list) > MAX_URLS_PER_REQUEST

\* unique.length > MAX_URLS_PER_REQUEST
OverCap(list) == Len(Unique(list)) > MAX_URLS_PER_REQUEST

\* ---------------------------------------------------------------- state
VARIABLES
  APIVOID_KEY,    \* the APIVoid key of the environment, "" when it is not set
  SCRAPERAPI_KEY, \* the ScraperAPI key of the environment, "" when it is not set
  body,           \* the request body
  handled,        \* the handler has run on the request
  response,       \* what the handler has sent back
  unique,         \* the deduplicated list
  active,         \* the limiter's count of running tasks
  q,              \* the limiter's queue of waiting tasks
  pc,             \* per task: where its run of processOne stands
  ret,            \* per task: what the promise of processOne settled to
  starts,         \* per task: how many times processOne was called
  net,            \* per task: the collaborators a request was sent to
  fetch,          \* per task: the promise of puppeteerFetch
  proxy,          \* per task: the promise of scraperApiFetch
  expired,        \* per task: the stage in which a deadline won its race
  slots,          \* the values Promise.all has collected
  inverted,       \* some task settled before a task submitted earlier
  apiRes,         \* per task: processOne's apiRes
  pptr,           \* per task: processOne's pptr
  viaProxy,       \* per task: processOne's viaProxy
  browserPromise, \* the module's browserPromise: its state and the launch it came from
  launches,       \* how many times puppeteer.launch was called
  warm,           \* where the callback of app.listen stands
  at,             \* per task: where its call of puppeteerFetch stands
  page,           \* per task: the page withPage opened for it
  browserRun,     \* per task: what the browser did with the page's navigation
  handle,         \* per caller of getBrowser (0: the warm-up): the promise it got
  tries,          \* per task: the error of each attempt of the extraction ("": none)
  now,            \* the clock, in ms
  began,          \* per task: when its primary render was called
  due,            \* per task: when the timer of its latest hardCap fires
  endedAt,        \* per task: when processOne returned
  probe,          \* one call of apivoidCheck: host, reply and returned value
  exited          \* the Node.js process has exited

\* the browser and its pages
browserVars == <<browserPromise, launches, warm, at, page, browserRun, handle, tries>>

\* the clock and the timers
clockVars == <<now, began, due, endedAt>>

vars ==
  <<APIVOID_KEY, SCRAPERAPI_KEY, body, handled, response, unique, active, q,
    pc, ret, starts, net, fetch, proxy, expired, slots, inverted,
    apiRes, pptr, viaProxy, browserVars, clockVars, probe, exited>>

\* ------------------------------------------------------------- results
NoResult ==
  [status |-> "", url_input |-> NoElem, failure_reason |-> "", failure_text |-> "",
   scraped_text |-> EmptyText]

Failure(u, reason, text) ==
  [status |-> "failure", url_input |-> u, failure_reason |-> reason,
   failure_text |-> text, scraped_text |-> EmptyText]

Success(u, content) ==
  [status |-> "success", url_input |-> u, failure_reason |-> "", failure_text |-> "",
   scraped_text |-> content]

PendingP == [state |-> "pending", value |-> NoResult, reason |-> ""]

Fulfilled(v) == [state |-> "fulfilled", value |-> v, reason |-> ""]

Rejected(msg) == [state |-> "rejected", value |-> NoResult, reason |-> msg]

\* x || dflt for a string x
OrElse(x, dflt) == IF x = "" THEN dflt ELSE x

\* ------------------------------------------------------------ processOne
\* The task state threaded through one turn of the event loop.
TaskState ==
  [unique |-> unique, active |-> active, q |-> q, pc |-> pc, ret |-> ret,
   starts |-> starts, net |-> net, fetch |-> fetch, proxy |-> proxy]

\* processOne returns or throws: its promise settles
Return(T, i, p) == [T EXCEPT !.pc[i] = "returned", !.ret[i] = p]

\* processOne from its entry to its first await: validation, then the call of
\* apivoidCheck.  (The failure text is written without the backquotes the
\* code puts around the input.)
Enter(T, i, u) ==
  LET url == normalizeUrl(u)
  IN IF url = ""
       THEN Return(T, i, Fulfilled(Failure(u, "wrong_format",
                "The input url " \o u.v \o " is not properly formatted.")))
     ELSE [T EXCEPT !.pc[i] = "apivoid",
                    !.net[i] = IF ApivoidCallsNetwork(hostOnly(url), APIVOID_KEY)
                                 THEN @ \cup {"apivoid"} ELSE @]

\* a slip: the render is called whatever the reputation check returned
AfterApivoidUnchecked(T, i, u, res) ==
  [T EXCEPT !.pc[i] = "render", !.fetch[i] = "pending",
            !.net[i] = @ \cup {"puppeteer"}]

\* processOne after apivoidCheck: a failure is returned, otherwise
\* puppeteerFetch is called under hardCap
AfterApivoid(T, i, u, res) ==
  IF res.kind = "fail"
    THEN Return(T, i, Fulfilled(Failure(u, res.reason, res.text)))
  ELSE [T EXCEPT !.pc[i] = "render", !.fetch[i] = "pending",
                 !.net[i] = @ \cup {"puppeteer"}]

\* a slip: the rendered content is returned without the quality check
AfterRenderUnchecked(T, i, u, p) ==
  IF ~p.ok
    THEN Return(T, i, Fulfilled(Failure(u, "offline_on_puppeteer",
                                        OrElse(p.text, "The webpage did not load."))))
  ELSE Return(T, i, Fulfilled(Success(u, p.content)))

\* processOne once pptr is known: failure, success, or the call of
\* scraperApiFetch under a second hardCap
AfterRender(T, i, u, p) ==
  IF ~p.ok
    THEN Return(T, i, Fulfilled(Failure(u, "offline_on_puppeteer",
                                        OrElse(p.text, "The webpage did not load."))))
  ELSE IF ~looksLikeCaptcha(p.content, p.title)
    THEN Return(T, i, Fulfilled(Success(u, p.content)))
  ELSE [T EXCEPT !.pc[i] = "fallback", !.proxy[i] = "pending",
                 !.net[i] = IF SCRAPERAPI_KEY # "" THEN @ \cup {"scraperapi"} ELSE @]

\* the catch around the primary render: an exception becomes a failed pptr
Caught(msg) == Fetched(FALSE, "offline_on_puppeteer", msg, "null", EmptyText, EmptyText)

\* a slip: flagged fallback content is reported under the render's reason
AfterFallbackWrongReason(T, i, u, v) ==
  IF ~v.ok
    THEN Return(T, i, Fulfilled(Failure(u, OrElse(v.reason, "scraperapi"),
                                        OrElse(v.text, "ScraperAPI failed."))))
  ELSE IF looksLikeCaptcha(v.content, v.title)
    THEN Return(T, i, Fulfilled(Failure(u, "offline_on_puppeteer",
                                        "ScraperAPI returned CAPTCHA/short content.")))
  ELSE Return(T, i, Fulfilled(Success(u, v.content)))

\* processOne once viaProxy is known
AfterFallback(T, i, u, v) ==
  IF ~v.ok
    THEN Return(T, i, Fulfilled(Failure(u, OrElse(v.reason, "scraperapi"),
                                        OrElse(v.text, "ScraperAPI failed."))))
  ELSE IF looksLikeCaptcha(v.content, v.title)
    THEN Return(T, i, Fulfilled(Failure(u, "scraperapi",
                                        "ScraperAPI returned CAPTCHA/short content.")))
  ELSE Return(T, i, Fulfilled(Success(u, v.content)))

\* the deadline of hardCap wins the race: in the primary render the exception
\* is caught, in the fallback it leaves processOne
AfterDeadline(T, i, u) ==
  IF T.pc[i] = "render" THEN AfterRender(T, i, u, Caught("timeout"))
  ELSE Return(T, i, Rejected("timeout"))

\* --------------------------------------------------------------- limiter
\* run(): count the task and call fn(), which is processOne
Run(T, i) ==
  Enter([T EXCEPT !.active = @ + 1, !.starts[i] = @ + 1], i, T.unique[i])

\* a slip: one task too many is let through
SubmitOffByOne(T, i) ==
  IF T.active <= CONCURRENCY THEN Run(T, i) ELSE [T EXCEPT !.q = Append(@, i)]

\* the limiter called with a task: run it now or queue it
Submit(T, i) ==
  IF T.active < CONCURRENCY THEN Run(T, i) ELSE [T EXCEPT !.q = Append(@, i)]

\* unique.map(u => run(...)): the tasks are submitted in order
RECURSIVE SubmitAll(_, _, _)
SubmitAll(T, i, n) ==
  IF i > n THEN T
  ELSE LET T1 == Submit(T, i)
       IN IF T1.active > 0 THEN SubmitAll(T1, i + 1, n) ELSE T1

\* a slip: the task that was queued last is started first
LimiterNextLifo(T) ==
  LET T1 == [T EXCEPT !.active = @ - 1]
  IN IF T1.q = <<>> THEN T1
     ELSE Run([T1 EXCEPT !.q = SubSeq(@, 1, Len(@) - 1)], T1.q[Len(T1.q)])

\* next(): free the slot and start the head of the queue
LimiterNext(T) ==
  LET T1 == [T EXCEPT !.active = @ - 1]
  IN IF T1.q = <<>> THEN T1
     ELSE Run([T1 EXCEPT !.q = Tail(@)], Head(T1.q))

\* run() after await fn(): res or rej, then next()
Finish(T, i) == LimiterNext([T EXCEPT !.pc[i] = "settled"])

\* --------------------------------------------------------------- handler
Pending == [code |-> "pending", error |-> "", results |-> <<>>]

BadRequest(msg) == [code |-> "400", error |-> msg, results |-> <<>>]

\* a slip: the value is stored at the first free position, so the values end
\* up in the order the promises were fulfilled
CollectInCompletionOrder(vals, i, v) ==
  LET free == {k \in DOMAIN vals : vals[k] = NoResult}
  IN IF free = {} THEN vals
     ELSE [vals EXCEPT ![CHOOSE k \in free : \A m \in free : k <= m] = v]

\* Promise.all on the fulfilment of its i-th promise: the value is stored at
\* the promise's position
Collect(vals, i, v) == [vals EXCEPT ![i] = v]

\* The handler after await Promise.all(...): a rejection leaves the async
\* handler, which has no try/catch, so res.json is not reached (code
\* "rejected": what becomes of the rejected handler promise is up to express
\* and the Node.js runtime); when every promise is fulfilled the results are
\* sent.
Respond(T, vals) ==
  IF response.code # "pending" THEN response
  ELSE IF \E i \in DOMAIN T.pc : T.pc[i] = "settled" /\ T.ret[i].state = "rejected"
    THEN [code |-> "rejected", error |-> "timeout", results |-> <<>>]
  ELSE IF \A i \in DOMAIN T.pc : T.pc[i] = "settled"
    THEN [code |-> "200", error |-> "", results |-> vals]
  ELSE response

Install(T) ==
  /\ active' = T.active
  /\ q' = T.q
  /\ pc' = T.pc
  /\ ret' = T.ret
  /\ starts' = T.starts
  /\ net' = T.net
  /\ fetch' = T.fetch
  /\ proxy' = T.proxy

\* apiRes before apivoidCheck has returned
NoApiRes == [kind |-> "", reason |-> "", text |-> ""]

\* let pptr = { ok: false, reason: "offline_on_puppeteer", text: "unknown", ... }
PptrInitial ==
  Fetched(FALSE, "offline_on_puppeteer", "unknown", "null", EmptyText, EmptyText)

\* viaProxy before scraperApiFetch has returned
NoFetched == Fetched(FALSE, "", "", "null", EmptyText, EmptyText)

\* let browserPromise;
NoBrowser == [state |-> "unset", id |-> 0]

\* no navigation yet
NoRun ==
  [gotoThrew |-> FALSE, message |-> "", hasResp |-> FALSE, status |-> 0,
   extractThrew |-> FALSE, title |-> EmptyText, text |-> EmptyText]

\* no call of apivoidCheck
NoProbe ==
  [host |-> "", called |-> FALSE, out |-> NoApiRes,
   reply |-> [threw |-> FALSE, message |-> "", status |-> 200, error |-> "",
              a_records_found |-> TRUE, parked_domain |-> FALSE]]

\* the process after the module has been loaded, before the server listens
Constructed ==
  /\ handled = FALSE
  /\ response = Pending
  /\ unique = <<>>
  /\ active = 0
  /\ q = <<>>
  /\ pc = <<>>
  /\ ret = <<>>
  /\ starts = <<>>
  /\ net = <<>>
  /\ fetch = <<>>
  /\ proxy = <<>>
  /\ expired = <<>>
  /\ slots = <<>>
  /\ inverted = FALSE
  /\ apiRes = <<>>
  /\ pptr = <<>>
  /\ viaProxy = <<>>
  /\ browserPromise = NoBrowser
  /\ launches = 0
  /\ warm = "idle"
  /\ at = <<>>
  /\ page = <<>>
  /\ browserRun = <<>>
  /\ handle = [c \in {0} |-> 0]
  /\ tries = <<>>
  /\ now = 0
  /\ began = <<>>
  /\ due = <<>>
  /\ endedAt = <<>>
  /\ exited = FALSE

Init ==
  /\ APIVOID_KEY \in {"", "apivoid-key"}
  /\ SCRAPERAPI_KEY \in {"", "scraperapi-key"}
  /\ body \in Bodies
  /\ probe = NoProbe
  /\ Constructed

\* app.post("/batch-scrape"): the handler up to its await
BatchScrape ==
  /\ ~handled
  /\ handled' = TRUE
  /\ UNCHANGED <<APIVOID_KEY, SCRAPERAPI_KEY, body, inverted, browserPromise, launches, warm, now, probe, exited>>
  /\ IF body.kind # "array"
       THEN /\ response' = BadRequest("Body must be { urls: string[] }")
            /\ UNCHANGED <<unique, active, q, pc, ret, starts, net, fetch, proxy, expired, slots>>
            /\ UNCHANGED <<apiRes, pptr, viaProxy, at, page, browserRun, handle, tries, began, due, endedAt>>
     ELSE IF OverCap(body.urls)
       THEN /\ response' = BadRequest("Too many URLs; max " \o ToString(MAX_URLS_PER_REQUEST) \o ".")
            /\ UNCHANGED <<unique, active, q, pc, ret, starts, net, fetch, proxy, expired, slots>>
            /\ UNCHANGED <<apiRes, pptr, viaProxy, at, page, browserRun, handle, tries, began, due, endedAt>>
     ELSE LET n == Len(Unique(body.urls))
              T0 == [unique |-> Unique(body.urls), active |-> 0, q |-> <<>>,
                     pc |-> [i \in 1..n |-> "queued"],
                     ret |-> [i \in 1..n |-> PendingP],
                     starts |-> [i \in 1..n |-> 0],
                     net |-> [i \in 1..n |-> {}],
                     fetch |-> [i \in 1..n |-> "none"],
                     proxy |-> [i \in 1..n |-> "none"]]
          IN /\ unique' = Unique(body.urls)
             /\ expired' = [i \in 1..n |-> "none"]
             /\ slots' = [i \in 1..n |-> NoResult]
             /\ apiRes' = [i \in 1..n |-> NoApiRes]
             /\ pptr' = [i \in 1..n |-> PptrInitial]
             /\ viaProxy' = [i \in 1..n |-> NoFetched]
             /\ at' = [i \in 1..n |-> "none"]
             /\ page' = [i \in 1..n |-> "none"]
             /\ browserRun' = [i \in 1..n |-> NoRun]
             /\ handle' = [c \in 0..n |-> IF c = 0 THEN handle[0] ELSE 0]
             /\ tries' = [i \in 1..n |-> <<>>]
             /\ began' = [i \in 1..n |-> 0]
             /\ due' = [i \in 1..n |-> 0]
             /\ endedAt' = [i \in 1..n |-> 0]
             /\ Install(SubmitAll(T0, 1, n))
             /\ response' = IF n = 0 THEN [code |-> "200", error |-> "", results |-> <<>>]
                             ELSE Pending

\* the promise of apivoidCheck settles and processOne goes on
ApivoidTurn(i) ==
  /\ pc[i] = "apivoid"
  /\ \E reply \in ApivoidReplies :
       LET res == apivoidCheck(hostOnly(normalizeUrl(unique[i])), APIVOID_KEY, reply)
       IN /\ apiRes' = [apiRes EXCEPT ![i] = res]
          /\ Install(AfterApivoid(TaskState, i, unique[i], res))
  /\ UNCHANGED <<APIVOID_KEY, SCRAPERAPI_KEY, body, handled, response, unique, expired, slots, inverted>>
  /\ UNCHANGED <<pptr, viaProxy, probe>>

ApivoidSettles(i) == ApivoidTurn(i) /\ UNCHANGED <<browserVars, clockVars, exited>>

\* The promise of puppeteerFetch has settled to out, a value or an
\* exception: processOne goes on if it still awaits the race, the catch
\* around the render turning an exception into a failed pptr.
FetchSettles(i, out) ==
  LET T == [TaskState EXCEPT !.fetch[i] = "settled"]
      got == IF out.threw THEN Caught(out.message) ELSE out.value
  IN IF pc[i] = "render"
       THEN /\ pptr' = [pptr EXCEPT ![i] = got]
            /\ Install(AfterRender(T, i, unique[i], got))
     ELSE /\ pptr' = pptr
          /\ Install(T)

\* the promise of puppeteerFetch settles, the fetch taken as one step
PuppeteerTurn(i) ==
  /\ fetch[i] = "pending"
  /\ \E r \in PuppeteerRuns : FetchSettles(i, puppeteerFetch(normalizeUrl(unique[i]), r))
  /\ UNCHANGED <<APIVOID_KEY, SCRAPERAPI_KEY, body, handled, response, unique, expired, slots, inverted>>
  /\ UNCHANGED <<apiRes, viaProxy, probe>>

PuppeteerSettles(i) == PuppeteerTurn(i) /\ UNCHANGED <<browserVars, clockVars, exited>>

\* the promise of scraperApiFetch settles; processOne goes on if it still
\* awaits the race
ScraperTurn(i) ==
  /\ proxy[i] = "pending"
  /\ \E reply \in ScraperReplies :
       LET T == [TaskState EXCEPT !.proxy[i] = "settled"]
           v == scraperApiFetch(normalizeUrl(unique[i]), SCRAPERAPI_KEY, reply)
       IN IF pc[i] = "fallback"
            THEN /\ viaProxy' = [viaProxy EXCEPT ![i] = v]
                 /\ Install(AfterFallback(T, i, unique[i], v))
          ELSE /\ viaProxy' = viaProxy
               /\ Install(T)
  /\ UNCHANGED <<APIVOID_KEY, SCRAPERAPI_KEY, body, handled, response, unique, expired, slots, inverted>>
  /\ UNCHANGED <<apiRes, pptr, probe>>

ScraperSettles(i) == ScraperTurn(i) /\ UNCHANGED <<browserVars, clockVars, exited>>

\* The timer of hardCap fires while its race is undecided.  (A timer that
\* fires after its race was decided changes nothing: the race has settled and
\* the rejection is handled by it.)  Without a ScraperAPI key scraperApiFetch
\* is settled from the start, and its continuation runs before any timer.
\* Nothing is done about the fetch that lost the race.
DeadlineTurn(i) ==
  /\ \/ pc[i] = "render"
     \/ pc[i] = "fallback" /\ SCRAPERAPI_KEY # ""
  /\ expired' = [expired EXCEPT ![i] = pc[i]]
  /\ pptr' = IF pc[i] = "render" THEN [pptr EXCEPT ![i] = Caught("timeout")] ELSE pptr
  /\ Install(AfterDeadline(TaskState, i, unique[i]))
  /\ UNCHANGED <<APIVOID_KEY, SCRAPERAPI_KEY, body, handled, response, unique, slots, inverted>>
  /\ UNCHANGED <<apiRes, viaProxy, probe>>

DeadlineFires(i) == DeadlineTurn(i) /\ UNCHANGED <<browserVars, clockVars, exited>>

\* run() resumes after await fn(): the limiter promise settles, next() runs,
\* and the handler resumes if Promise.all settled.  The frame of processOne
\* is gone, and its local variables with it.
SettleTurn(i) ==
  /\ pc[i] = "returned"
  /\ apiRes' = [apiRes EXCEPT ![i] = NoApiRes]
  /\ pptr' = [pptr EXCEPT ![i] = PptrInitial]
  /\ viaProxy' = [viaProxy EXCEPT ![i] = NoFetched]
  /\ slots' = IF ret[i].state = "fulfilled" THEN Collect(slots, i, ret[i].value) ELSE slots
  /\ inverted' = (inverted \/ \E j \in 1..(i - 1) : pc[j] # "settled")
  /\ LET T == Finish(TaskState, i)
     IN /\ Install(T)
        /\ response' = Respond(T, slots')
  /\ UNCHANGED <<APIVOID_KEY, SCRAPERAPI_KEY, body, handled, unique, expired, probe>>

Settle(i) == SettleTurn(i) /\ UNCHANGED <<browserVars, clockVars, exited>>

Next ==
  \/ BatchScrape
  \/ \E i \in DOMAIN pc : ApivoidSettles(i)
  \/ \E i \in DOMAIN pc : PuppeteerSettles(i)
  \/ \E i \in DOMAIN pc : ScraperSettles(i)
  \/ \E i \in DOMAIN pc : DeadlineFires(i)
  \/ \E i \in DOMAIN pc : Settle(i)

Spec == Init /\ [][Next]_vars

\* ----------------------------------------------------- apivoidCheck alone
\* the hosts apivoidCheck is called with: none, and a hostname
ProbeHosts == {"", "a.com"}

InitApivoid ==
  /\ APIVOID_KEY \in {"", "apivoid-key"}
  /\ SCRAPERAPI_KEY = ""
  /\ body = [kind |-> "undefined", urls |-> <<>>]
  /\ probe \in {[NoProbe EXCEPT !.host = h, !.reply = r] : h \in ProbeHosts, r \in ApivoidReplies}
  /\ Constructed

\* one call of apivoidCheck(host), answered with the reply
Classify ==
  /\ ~probe.called
  /\ probe' = [probe EXCEPT !.called = TRUE,
                            !.out = apivoidCheck(probe.host, APIVOID_KEY, probe.reply)]
  /\ UNCHANGED <<APIVOID_KEY, SCRAPERAPI_KEY, body, handled, response, unique, active, q,
                 pc, ret, starts, net, fetch, proxy, expired, slots, inverted,
                 apiRes, pptr, viaProxy, browserVars, clockVars, exited>>

NextApivoid == Classify

SpecApivoid == InitApivoid /\ [][NextApivoid]_vars

\* ------------------------------------------------- the fetch step by step
\* getBrowser(), given browserPromise and the launches so far: the first
\* call launches and keeps the promise, every call returns the kept promise
getBrowserUnguarded(bp, n) ==
  [promise |-> [state |-> "pending", id |-> n + 1], launches |-> n + 1]

\* a slip: a launch that failed is tried again by the next caller
getBrowserRetriesFailed(bp, n) ==
  IF bp.state \in {"unset", "rejected"}
    THEN [promise |-> [state |-> "pending", id |-> n + 1], launches |-> n + 1]
  ELSE [promise |-> bp, launches |-> n]

getBrowser(bp, n) ==
  IF bp.state = "unset"
    THEN [promise |-> [state |-> "pending", id |-> n + 1], launches |-> n + 1]
  ELSE [promise |-> bp, launches |-> n]

\* a fetch that ends with an exception
Threw(msg) == [threw |-> TRUE, message |-> msg, value |-> NoFetched]

\* processOne is not resumed
Stay == Install(TaskState) /\ pptr' = pptr

\* what a step of a fetch leaves alone
FetchFrame ==
  UNCHANGED <<APIVOID_KEY, SCRAPERAPI_KEY, body, handled, response, unique, expired,
              slots, inverted, apiRes, viaProxy, probe, clockVars, exited>>

\* batches of one and two URLs
FetchBodies ==
  {[kind |-> "array", urls |-> a] :
     a \in {<<Str("http://a.com")>>,
            <<Str("http://a.com"), Str("https://B.org/x")>>}}

InitFetch ==
  /\ APIVOID_KEY = "apivoid-key"
  /\ SCRAPERAPI_KEY \in {"", "scraperapi-key"}
  /\ body \in FetchBodies
  /\ probe = NoProbe
  /\ Constructed

\* the callback of app.listen: the warm-up calls getBrowser and awaits it
Listen ==
  /\ warm = "idle"
  /\ LET g == getBrowser(browserPromise, launches)
     IN /\ browserPromise' = g.promise
        /\ launches' = g.launches
        /\ handle' = [handle EXCEPT ![0] = g.promise.id]
  /\ warm' = "getBrowser"
  /\ Stay
  /\ FetchFrame
  /\ UNCHANGED <<at, page, browserRun, tries>>

\* puppeteer.launch resolves with a browser or rejects
LaunchSettles ==
  /\ browserPromise.state = "pending"
  /\ \E s \in {"resolved", "rejected"} : browserPromise' = [browserPromise EXCEPT !.state = s]
  /\ Stay
  /\ FetchFrame
  /\ UNCHANGED <<launches, warm, at, page, browserRun, handle, tries>>

\* the warm-up resumes with the browser, or catches the failed launch
WarmUpResumes ==
  /\ warm = "getBrowser"
  /\ browserPromise.state \in {"resolved", "rejected"}
  /\ warm' = "done"
  /\ Stay
  /\ FetchFrame
  /\ UNCHANGED <<browserPromise, launches, at, page, browserRun, handle, tries>>

\* a request is handled once the server listens
BatchScrapeListening == warm # "idle" /\ BatchScrape

\* processOne goes on after apivoidCheck; when it calls puppeteerFetch,
\* withPage calls getBrowser in the same turn and awaits it
ApivoidSettlesCallsFetch(i) ==
  /\ ApivoidTurn(i)
  /\ IF pc'[i] = "render"
       THEN LET g == getBrowser(browserPromise, launches)
            IN /\ browserPromise' = g.promise
               /\ launches' = g.launches
               /\ handle' = [handle EXCEPT ![i] = g.promise.id]
               /\ at' = [at EXCEPT ![i] = "getBrowser"]
     ELSE UNCHANGED <<browserPromise, launches, handle, at>>
  /\ UNCHANGED <<warm, page, browserRun, tries, clockVars, exited>>

\* withPage resumes with the browser and calls browser.newPage(), or the
\* failed launch leaves withPage
GetBrowserResumes(i) ==
  /\ at[i] = "getBrowser"
  /\ browserPromise.state \in {"resolved", "rejected"}
  /\ IF browserPromise.state = "rejected"
       THEN /\ at' = [at EXCEPT ![i] = "done"]
            /\ FetchSettles(i, Threw("Failed to launch the browser process!"))
     ELSE /\ at' = [at EXCEPT ![i] = "newPage"]
          /\ Stay
  /\ FetchFrame
  /\ UNCHANGED <<browserPromise, launches, warm, page, browserRun, handle, tries>>

\* browser.newPage() resolves with a page, whose timeouts are set and whose
\* setRequestInterception is called, or it rejects
NewPageSettles(i) ==
  /\ at[i] = "newPage"
  /\ \/ /\ page' = [page EXCEPT ![i] = "open"]
        /\ at' = [at EXCEPT ![i] = "intercept"]
        /\ Stay
     \/ /\ page' = page
        /\ at' = [at EXCEPT ![i] = "done"]
        /\ FetchSettles(i, Threw("Protocol error (Target.createTarget): Target closed"))
  /\ FetchFrame
  /\ UNCHANGED <<browserPromise, launches, warm, browserRun, handle, tries>>

\* page.setRequestInterception(true) resolves, the request handler is
\* installed and fn(page) calls page.goto; or it rejects, outside the try
\* of withPage
InterceptSettles(i) ==
  /\ at[i] = "intercept"
  /\ \/ /\ at' = [at EXCEPT ![i] = "goto"]
        /\ Stay
     \/ /\ at' = [at EXCEPT ![i] = "done"]
        /\ FetchSettles(i, Threw("Protocol error (Fetch.enable): Target closed"))
  /\ FetchFrame
  /\ UNCHANGED <<browserPromise, launches, warm, page, browserRun, handle, tries>>

\* the navigation has failed: page.goto threw, or there is no response or
\* a status of 400 or more
NavigationFailed(r) == r.gotoThrew \/ ~r.hasResp \/ r.status = 0 \/ r.status >= 400

\* page.goto settles: on a failed navigation fn(page) is left (after
\* page.title() for the failure value), otherwise title and text are read
GotoSettles(i) ==
  /\ at[i] = "goto"
  /\ \E r \in PuppeteerRuns :
       /\ browserRun' = [browserRun EXCEPT ![i] = r]
       /\ at' = [at EXCEPT ![i] = IF NavigationFailed(r) THEN "closing" ELSE "extract"]
  /\ Stay
  /\ FetchFrame
  /\ UNCHANGED <<browserPromise, launches, warm, page, handle, tries>>

\* { attempts: 2 }
ExtractAttempts == 2

\* the error of a frame that reloaded while it was evaluated
ContextDestroyed == "Execution context was destroyed, most likely because of a navigation."

\* /Execution context was destroyed|Cannot find context with specified id/i.test(msg)
Transient(msg) == msg \in {ContextDestroyed, "Cannot find context with specified id"}

\* How an attempt to read title and text can end on a page, as the message of
\* the error thrown ("" when both were read): the frame may reload under any
\* attempt, and a page whose run throws does so with the error of the run.
AttemptOutcomes(r) == {ContextDestroyed, IF r.extractThrew THEN r.message ELSE ""}

\* a slip: every error is taken for a transient one
OnAttemptRetryAll(msg) == IF msg = "" THEN "closing" ELSE "settling"

\* getTitleAndTextWithRetries after an attempt: it returns, rethrows an error
\* that is not transient, or waits for the page to settle
OnAttempt(msg) ==
  IF msg = "" THEN "closing"
  ELSE IF ~Transient(msg) THEN "closing"
  ELSE "settling"

\* an attempt of getTitleAndTextWithRetries ends
ExtractSettles(i) ==
  /\ at[i] = "extract"
  /\ \E msg \in AttemptOutcomes(browserRun[i]) :
       /\ tries' = [tries EXCEPT ![i] = Append(@, msg)]
       /\ at' = [at EXCEPT ![i] = OnAttempt(msg)]
  /\ Stay
  /\ FetchFrame
  /\ UNCHANGED <<browserPromise, launches, warm, page, browserRun, handle>>

\* waitForNavigation and delay(settleWaitMs) are over: the loop goes into its
\* next attempt, or it is over and lastErr is thrown
SettleWaitOver(i) ==
  /\ at[i] = "settling"
  /\ IF Len(tries[i]) < ExtractAttempts
       THEN /\ at' = [at EXCEPT ![i] = "extract"]
            /\ browserRun' = browserRun
     ELSE /\ at' = [at EXCEPT ![i] = "closing"]
          /\ browserRun' = [browserRun EXCEPT ![i] =
                              [@ EXCEPT !.extractThrew = TRUE,
                                        !.message = tries[i][Len(tries[i])]]]
  /\ Stay
  /\ FetchFrame
  /\ UNCHANGED <<browserPromise, launches, warm, page, handle, tries>>

\* the finally of withPage: page.close() resolves and the promise of
\* puppeteerFetch settles
CloseSettles(i) ==
  /\ at[i] = "closing"
  /\ page' = [page EXCEPT ![i] = "closed"]
  /\ at' = [at EXCEPT ![i] = "done"]
  /\ FetchSettles(i, puppeteerFetch(normalizeUrl(unique[i]), browserRun[i]))
  /\ FetchFrame
  /\ UNCHANGED <<browserPromise, launches, warm, browserRun, handle, tries>>

NextFetch ==
  \/ Listen
  \/ LaunchSettles
  \/ WarmUpResumes
  \/ BatchScrapeListening
  \/ \E i \in DOMAIN pc : ApivoidSettlesCallsFetch(i)
  \/ \E i \in DOMAIN pc : GetBrowserResumes(i)
  \/ \E i \in DOMAIN pc : NewPageSettles(i)
  \/ \E i \in DOMAIN pc : InterceptSettles(i)
  \/ \E i \in DOMAIN pc : GotoSettles(i)
  \/ \E i \in DOMAIN pc : ExtractSettles(i)
  \/ \E i \in DOMAIN pc : SettleWaitOver(i)
  \/ \E i \in DOMAIN pc : CloseSettles(i)
  \/ \E i \in DOMAIN pc : ScraperSettles(i)
  \/ \E i \in DOMAIN pc : DeadlineFires(i)
  \/ \E i \in DOMAIN pc : Settle(i)

SpecFetch == InitFetch /\ [][NextFetch]_vars

\* --------------------------------------------------------- the deadlines
\* the clock advances in steps of TickMs up to MaxClockMs
TickMs == 20000

MaxClockMs == 140000

\* a batch of one URL, and one of a URL behind a string that is none
ClockBodies ==
  {[kind |-> "array", urls |-> a] :
     a \in {<<Str("http://a.com")>>, <<Str("foobar"), Str("http://a.com")>>}}

InitClock ==
  /\ APIVOID_KEY = "apivoid-key"
  /\ SCRAPERAPI_KEY \in {"", "scraperapi-key"}
  /\ body \in ClockBodies
  /\ probe = NoProbe
  /\ Constructed

\* What a turn of processOne does to the timers, at the time it runs: each
\* call of hardCap starts a timer of its own, delay(PER_URL_TIMEOUT_MS).
ClockStep ==
  /\ now' = now
  /\ began' = [i \in DOMAIN pc |->
                 IF pc[i] # "render" /\ pc'[i] = "render" THEN now ELSE began[i]]
  /\ due' = [i \in DOMAIN pc |->
               IF pc'[i] # pc[i] /\ pc'[i] \in {"render", "fallback"}
                 THEN now + PER_URL_TIMEOUT_MS ELSE due[i]]
  /\ endedAt' = [i \in DOMAIN pc |->
                   IF pc[i] # "returned" /\ pc'[i] = "returned" THEN now ELSE endedAt[i]]

\* the continuation of task i is ready to run: it awaits a promise that has
\* settled without waiting for anything
Immediate(i) ==
  \/ pc[i] = "returned"
  \/ pc[i] = "apivoid" /\ ~ApivoidCallsNetwork(hostOnly(normalizeUrl(unique[i])), APIVOID_KEY)
  \/ pc[i] = "fallback" /\ SCRAPERAPI_KEY = ""

\* time passes while no continuation is ready to run and no timer is due
Tick ==
  /\ now + TickMs <= MaxClockMs
  /\ \A i \in DOMAIN pc : ~Immediate(i)
  /\ \A i \in DOMAIN pc : pc[i] \in {"render", "fallback"} => now < due[i]
  /\ now' = now + TickMs
  /\ UNCHANGED <<APIVOID_KEY, SCRAPERAPI_KEY, body, handled, response, unique, active, q,
                 pc, ret, starts, net, fetch, proxy, expired, slots, inverted,
                 apiRes, pptr, viaProxy, browserVars, began, due, endedAt, probe, exited>>

ApivoidSettlesAt(i) == ApivoidTurn(i) /\ ClockStep /\ UNCHANGED <<browserVars, exited>>

PuppeteerSettlesAt(i) == PuppeteerTurn(i) /\ ClockStep /\ UNCHANGED <<browserVars, exited>>

ScraperSettlesAt(i) == ScraperTurn(i) /\ ClockStep /\ UNCHANGED <<browserVars, exited>>

\* the timer of the task's latest hardCap fires when it is due
DeadlineFiresAt(i) ==
  /\ due[i] <= now
  /\ DeadlineTurn(i)
  /\ ClockStep
  /\ UNCHANGED <<browserVars, exited>>

SettleAt(i) == SettleTurn(i) /\ ClockStep /\ UNCHANGED <<browserVars, exited>>

NextClock ==
  \/ BatchScrape
  \/ Tick
  \/ \E i \in DOMAIN pc : ApivoidSettlesAt(i)
  \/ \E i \in DOMAIN pc : PuppeteerSettlesAt(i)
  \/ \E i \in DOMAIN pc : ScraperSettlesAt(i)
  \/ \E i \in DOMAIN pc : DeadlineFiresAt(i)
  \/ \E i \in DOMAIN pc : SettleAt(i)

SpecClock == InitClock /\ [][NextClock]_vars

\* ------------------------------------------------ the end of the process
\* batches of two and three URLs
ExitBodies ==
  {[kind |-> "array", urls |-> a] :
     a \in {<<Str("http://a.com"), Str("https://B.org/x")>>,
            <<Str("http://a.com"), Str("https://B.org/x"), Str("http://c.net/p")>>}}

InitExit ==
  /\ APIVOID_KEY = "apivoid-key"
  /\ SCRAPERAPI_KEY = "scraperapi-key"
  /\ body \in ExitBodies
  /\ probe = NoProbe
  /\ Constructed

\* the handler's promise has just been rejected: await Promise.all(...) threw
\* and the async handler has no try/catch
HandlerRejects == response.code # "rejected" /\ response'.code = "rejected"

\* A task settles.  When that rejects the promise of the async handler, what
\* follows is up to the express that package.json installs: an express that
\* ignores the value its handler returns leaves the rejection unhandled, on
\* which Node.js 22 ends the process; an express that awaits it answers with
\* an error and the process goes on.
SettleOrExit(i) ==
  /\ ~exited
  /\ SettleTurn(i)
  /\ IF HandlerRejects THEN exited' \in BOOLEAN ELSE exited' = FALSE
  /\ UNCHANGED <<browserVars, clockVars>>

\* the turns of a process that lives
BatchScrapeAlive == ~exited /\ BatchScrape

ApivoidSettlesAlive(i) == ~exited /\ ApivoidSettles(i)

PuppeteerSettlesAlive(i) == ~exited /\ PuppeteerSettles(i)

ScraperSettlesAlive(i) == ~exited /\ ScraperSettles(i)

DeadlineFiresAlive(i) == ~exited /\ DeadlineFires(i)

NextExit ==
  \/ BatchScrapeAlive
  \/ \E i \in DOMAIN pc : ApivoidSettlesAlive(i)
  \/ \E i \in DOMAIN pc : PuppeteerSettlesAlive(i)
  \/ \E i \in DOMAIN pc : ScraperSettlesAlive(i)
  \/ \E i \in DOMAIN pc : DeadlineFiresAlive(i)
  \/ \E i \in DOMAIN pc : SettleOrExit(i)

SpecExit == InitExit /\ [][NextExit]_vars

\* ------------------------------------------------------------ properties
Tasks == DOMAIN pc

\* the runs of processOne started and not yet settled by the limiter
InFlight == {i \in Tasks : pc[i] \in {"apivoid", "render", "fallback", "returned"}}

\* the promise of processOne has settled
Ended(i) == pc[i] \in {"returned", "settled"}

AllStrings(list) == \A k \in 1..Len(list) : list[k].t = "string"

Distinct(list) == {list[k] : k \in 1..Len(list)}

\* the place of a list where x occurs for the first time
FirstPlace(list, x) ==
  LET places == {k \in 1..Len(list) : list[k] = x}
  IN CHOOSE k \in places : \A m \in places : k <= m

\* seq holds each distinct string of list once, ordered by first occurrence
InFirstOccurrenceOrder(seq, list) ==
  /\ Distinct(seq) = Distinct(list)
  /\ Len(seq) = Cardinality(Distinct(list))
  /\ \A i \in 1..(Len(seq) - 1) : FirstPlace(list, seq[i]) < FirstPlace(list, seq[i + 1])

\* the request is an array of strings with at most 50 distinct ones
WellFormed ==
  /\ body.kind = "array"
  /\ AllStrings(body.urls)
  /\ Cardinality(Distinct(body.urls)) <= 50

\* C1: at every instant at most 2 runs of processOne of the batch are in
\* flight (started and not yet settled), whatever the number of unique URLs
\* and the order in which the runs complete.
C1_AtMostTwoInFlight == Cardinality(InFlight) <= 2

\* two runs in flight after an earlier run has settled out of order: the third
\* task renders while the first is still in its fallback
C1_Witness ==
  /\ Len(unique) = 3
  /\ pc[2] = "settled"
  /\ pc[1] = "fallback"
  /\ pc[3] = "render"
  /\ Cardinality(InFlight) = 2

\* C2: for a well-formed batch the results that are returned are ordered by
\* deduplicated input order, not by completion order: results[i] is the
\* terminal result of the i-th distinct input string and carries that string
\* as url_input.
C2_ResultsInInputOrder ==
  (WellFormed /\ response.code = "200") =>
    /\ DOMAIN response.results = Tasks
    /\ \A i \in Tasks :
         /\ ret[i].state = "fulfilled"
         /\ response.results[i] = ret[i].value
    /\ InFirstOccurrenceOrder([i \in Tasks |-> response.results[i].url_input], body.urls)

\* results returned for three URLs that settled out of input order, with
\* different outcomes
C2_Witness ==
  /\ WellFormed
  /\ response.code = "200"
  /\ inverted
  /\ Len(unique) = 3
  /\ response.results[1].status = "success"
  /\ response.results[2].status = "failure"

\* C3: input strings are deduplicated by exact equality before scheduling:
\* processOne is started at most once, and once it has left the queue exactly
\* once, per distinct string; there is one task and one result entry per
\* distinct string, in first-occurrence order, however often a string is
\* repeated.
C3_OneTaskPerDistinctString ==
  (handled /\ WellFormed) =>
    /\ InFirstOccurrenceOrder(unique, body.urls)
    /\ Tasks = 1..Len(unique)
    /\ \A i \in Tasks : starts[i] = (IF pc[i] = "queued" THEN 0 ELSE 1)
    /\ response.code = "200" => Len(response.results) = Cardinality(Distinct(body.urls))

\* a request of three strings, the first repeated at the end, answered with
\* two results
C3_Witness ==
  /\ WellFormed
  /\ Len(body.urls) = 3
  /\ body.urls[1] = body.urls[3]
  /\ body.urls[1] # body.urls[2]
  /\ response.code = "200"
  /\ Len(response.results) = 2
  /\ starts = <<1, 1>>

C5_NonStringsRejected ==
  (handled /\ (body.kind # "array" \/ ~AllStrings(body.urls))) =>
    /\ response.code = "400"
    /\ \A i \in DOMAIN starts : starts[i] = 0

\* C6: a well-formed batch yields a response with a complete result set, one
\* terminal result per distinct URL, whatever the outcomes of the reputation
\* check, the render, the fallback and the deadlines: once every task of the
\* batch has ended, that response has been sent.
C6_CompleteResultSet ==
  (handled /\ WellFormed /\ \A i \in Tasks : pc[i] = "settled") =>
    /\ response.code = "200"
    /\ Len(response.results) = Cardinality(Distinct(body.urls))
    /\ \A i \in Tasks : response.results[i].status \in {"success", "failure"}

\* C7: processOne never raises past its boundary: whatever each stage does,
\* the deadline firing during the render or the fallback included, its
\* promise is fulfilled with a result of status success or failure.
C7_ProcessOneNeverRaises ==
  \A i \in Tasks :
    Ended(i) =>
      /\ ret[i].state = "fulfilled"
      /\ ret[i].value.status \in {"success", "failure"}

\* C8: every terminal result has either a non-empty scraped_text, with
\* failure_reason and failure_text empty, or a non-empty failure_reason and
\* failure_text, with scraped_text empty; never both and never neither,
\* whatever page the render or the fallback returns, an empty one included.
C8_TextOrFailure ==
  \A i \in Tasks :
    ret[i].state = "fulfilled" =>
      LET r == ret[i].value
          scraped == r.scraped_text.len > 0 /\ r.failure_reason = "" /\ r.failure_text = ""
          failed == r.failure_reason # "" /\ r.failure_text # "" /\ r.scraped_text.len = 0
      IN (scraped \/ failed) /\ ~(scraped /\ failed)

\* C9: whenever the deadline fires while a task is in its render or in its
\* fallback, the task is finalized as a failure result at that moment,
\* without waiting for the fetch that lost (in the render:
\* offline_on_puppeteer with the text "timeout"); the reputation check is not
\* subject to the deadline.
C9_DeadlineFinalizesAsFailure ==
  \A i \in Tasks :
    expired[i] # "none" =>
      /\ expired[i] \in {"render", "fallback"}
      /\ Ended(i)
      /\ ret[i].state = "fulfilled"
      /\ ret[i].value.status = "failure"
      /\ expired[i] = "render" =>
           /\ ret[i].value.failure_reason = "offline_on_puppeteer"
           /\ ret[i].value.failure_text = "timeout"

\* the strings of the requests that are absolute http or https URLs
HttpUrls == {"http://a.com", "https://B.org/x", "http://c.net/p"}

\* C10 as stated: when the reputation credential is absent, every URL of a
\* batch ends as Failure(apivoid_api_key), whatever its content.
C10_EveryUrlApivoidKey ==
  APIVOID_KEY = "" =>
    \A i \in Tasks :
      Ended(i) =>
        /\ ret[i].state = "fulfilled"
        /\ ret[i].value.status = "failure"
        /\ ret[i].value.failure_reason = "apivoid_api_key"

\* C10 amended: when the reputation credential is absent, every input of a
\* batch that is an absolute http or https URL ends as
\* Failure(apivoid_api_key) without a request to any collaborator, and every
\* other input ends as Failure(wrong_format).
C10_HttpUrlsApivoidKey ==
  APIVOID_KEY = "" =>
    \A i \in Tasks :
      /\ net[i] = {}
      /\ pc[i] \notin {"render", "fallback"}
      /\ Ended(i) =>
           /\ ret[i].state = "fulfilled"
           /\ ret[i].value.status = "failure"
           /\ ret[i].value.failure_reason =
                (IF unique[i].v \in HttpUrls THEN "apivoid_api_key" ELSE "wrong_format")
           /\ unique[i].v \in HttpUrls => ret[i].value.failure_text = "APIVoid API key is missing."

\* without the credential, three different URLs have all ended as
\* Failure(apivoid_api_key) and the results were sent
C10_Witness ==
  /\ APIVOID_KEY = ""
  /\ Len(unique) = 3
  /\ response.code = "200"
  /\ \A i \in Tasks : response.results[i].failure_reason = "apivoid_api_key"

\* C11: the reputation check classifies a reply by the first rule that
\* matches: a transport or timeout error gives apivoid_api_key; a status of
\* 400 or more, or an error field, gives wrong_format when the error text is
\* "domain name is not valid" and apivoid_api_key otherwise, on a 2xx status
\* too; then a_records_found false gives a_records_not_found, whatever
\* parked_domain is; then parked_domain true gives parked_domain; otherwise
\* the check is ok.
C11_ClassifiedByFirstMatch ==
  (probe.called /\ APIVOID_KEY # "" /\ probe.host # "") =>
    LET r == probe.reply
        FailedWith(reason) == probe.out.kind = "fail" /\ probe.out.reason = reason
    IN /\ r.threw => FailedWith("apivoid_api_key")
       /\ (~r.threw /\ (r.status >= 400 \/ r.error # "")) =>
            IF r.error = "Domain name is not valid"
              THEN FailedWith("wrong_format")
            ELSE FailedWith("apivoid_api_key")
       /\ (~r.threw /\ r.status < 400 /\ r.error = "") =>
            /\ ~r.a_records_found => FailedWith("a_records_not_found")
            /\ (r.a_records_found /\ r.parked_domain) => FailedWith("parked_domain")
            /\ (r.a_records_found /\ ~r.parked_domain) => probe.out = ApiOk

\* a 200 reply without A records and with the parked flag was classified
\* a_records_not_found
C11_Witness ==
  /\ probe.called
  /\ APIVOID_KEY # ""
  /\ probe.host # ""
  /\ ~probe.reply.threw
  /\ probe.reply.status = 200
  /\ probe.reply.error = ""
  /\ ~probe.reply.a_records_found
  /\ probe.reply.parked_domain
  /\ probe.out.reason = "a_records_not_found"

\* the fetch succeeded and the classifier flags what it returned
Flagged(f) == f.ok /\ looksLikeCaptcha(f.content, f.title)

\* the render stage of task i is over
Rendered(i) == fetch[i] # "none" /\ pc[i] # "render"

\* C12: whenever the primary render succeeds but its content is flagged,
\* scraperApiFetch is called; and when processOne receives from it an ok
\* value whose content is not flagged, the task ends as Success with
\* scraped_text equal to the fallback's text, not the render's.
C12_FlaggedRenderFallsBack ==
  \A i \in Tasks :
    (Rendered(i) /\ Flagged(pptr[i])) =>
      /\ proxy[i] # "none"
      /\ (viaProxy[i].ok /\ ~Flagged(viaProxy[i])) =>
           /\ Ended(i)
           /\ ret[i] = Fulfilled(Success(unique[i], viaProxy[i].content))

\* a flagged render followed by a fallback whose different text was returned
C12_Witness ==
  \E i \in Tasks :
    /\ Flagged(pptr[i])
    /\ viaProxy[i].ok
    /\ ret[i].state = "fulfilled"
    /\ ret[i].value.status = "success"
    /\ ret[i].value.scraped_text = viaProxy[i].content
    /\ ret[i].value.scraped_text # pptr[i].content

\* C13: when the content of the primary render is shorter than 300
\* characters, scraperApiFetch is called instead of the content being
\* returned as a success, whether or not the content mentions a CAPTCHA term.
C13_ShortContentFallsBack ==
  \A i \in Tasks :
    (Rendered(i) /\ pptr[i].ok /\ pptr[i].content.len < MIN_TEXT_FOR_OK) =>
      /\ proxy[i] # "none"
      /\ ~(ret[i].state = "fulfilled" /\ ret[i].value.scraped_text = pptr[i].content)

FailureReasons ==
  {"wrong_format", "a_records_not_found", "parked_domain", "apivoid_api_key",
   "offline_on_puppeteer", "scraperapi"}

\* C14: every failure result carries one of the six failure reasons, fixed
\* by the stage that failed: wrong_format for an input that fails
\* validation, the reason apivoidCheck returned for the reputation check,
\* offline_on_puppeteer for every failure of the primary render (a status of
\* 400 or more, no response, an exception, the deadline), and scraperapi for
\* every failure of the fallback (no key, a status of 400 or more, a
\* transport error, flagged content).
C14_ReasonFixedByStage ==
  \A i \in Tasks :
    (ret[i].state = "fulfilled" /\ ret[i].value.status = "failure") =>
      LET reason == ret[i].value.failure_reason
      IN /\ reason \in FailureReasons
         /\ normalizeUrl(unique[i]) = "" => reason = "wrong_format"
         /\ (normalizeUrl(unique[i]) # "" /\ fetch[i] = "none") =>
              /\ reason \in {"wrong_format", "a_records_not_found", "parked_domain",
                             "apivoid_api_key"}
              /\ pc[i] = "returned" => reason = apiRes[i].reason
         /\ (fetch[i] # "none" /\ proxy[i] = "none") => reason = "offline_on_puppeteer"
         /\ proxy[i] # "none" => reason = "scraperapi"

\* one task failed on the deadline of its render, another on flagged
\* fallback content
C14_Witness ==
  \E i, j \in Tasks :
    /\ expired[i] = "render"
    /\ ret[i].value.failure_reason = "offline_on_puppeteer"
    /\ proxy[j] = "settled"
    /\ ret[j].value.failure_reason = "scraperapi"
    /\ ret[j].value.failure_text = "ScraperAPI returned CAPTCHA/short content."

\* the steps a task takes from one stage to the next
StageSteps ==
  {<<"queued", "apivoid">>, <<"queued", "returned">>, <<"apivoid", "render">>,
   <<"apivoid", "returned">>, <<"render", "fallback">>, <<"render", "returned">>,
   <<"fallback", "returned">>, <<"returned", "settled">>}

\* what the stages a task has been through imply
StagesJustified ==
  \A i \in Tasks :
    /\ "apivoid" \in net[i] => normalizeUrl(unique[i]) # ""
    /\ (pc[i] # "queued" /\ normalizeUrl(unique[i]) = "") =>
         /\ net[i] = {}
         /\ Ended(i)
         /\ ret[i].value.status = "failure"
    /\ fetch[i] # "none" <=> "puppeteer" \in net[i]
    /\ (fetch[i] # "none" /\ pc[i] # "settled") => apiRes[i] = ApiOk
    /\ apiRes[i].kind = "fail" => Ended(i) /\ ret[i].value.status = "failure"
    /\ proxy[i] # "none" => Rendered(i)
    /\ (proxy[i] # "none" /\ pc[i] # "settled") => Flagged(pptr[i])
    /\ "scraperapi" \in net[i] => proxy[i] # "none"
    /\ (Rendered(i) /\ pc[i] # "settled" /\ ~pptr[i].ok) =>
         pc[i] = "returned" /\ ret[i].value.status = "failure"

\* a step takes each task on by at most one stage, in the order of the
\* stages, calls each collaborator as its stage is entered and not again,
\* and leaves a result that was returned as it is
StagesInOrder ==
  \A i \in DOMAIN pc :
    /\ pc'[i] # pc[i] => <<pc[i], pc'[i]>> \in StageSteps
    /\ starts'[i] # starts[i] => pc[i] = "queued" /\ starts'[i] = 1
    /\ net'[i] # net[i] =>
         \/ pc[i] = "queued" /\ pc'[i] = "apivoid" /\ net'[i] = {"apivoid"}
         \/ pc[i] = "apivoid" /\ pc'[i] = "render" /\ net'[i] = net[i] \cup {"puppeteer"}
         \/ pc[i] = "render" /\ pc'[i] = "fallback" /\ net'[i] = net[i] \cup {"scraperapi"}
    /\ (fetch'[i] # fetch[i] /\ fetch'[i] = "pending") =>
         fetch[i] = "none" /\ pc[i] = "apivoid" /\ pc'[i] = "render"
    /\ (proxy'[i] # proxy[i] /\ proxy'[i] = "pending") =>
         proxy[i] = "none" /\ pc[i] = "render" /\ pc'[i] = "fallback"
    /\ Ended(i) => ret'[i] = ret[i]

\* C15: the stages run at most once each and in the order validation,
\* reputation check, primary render, quality check, fallback; a failure at
\* any stage is terminal; the reputation service is never called for an
\* input that fails validation, the renderer never unless the reputation
\* check returned ok, the fallback never unless the primary render succeeded
\* and was flagged.
C15_StagesOnceInOrder == [](StagesJustified) /\ [][StagesInOrder]_vars

\* a task that went through every stage, each collaborator called, and
\* has returned
C15_Witness ==
  \E i \in Tasks :
    /\ pc[i] = "returned"
    /\ apiRes[i] = ApiOk
    /\ Flagged(pptr[i])
    /\ starts[i] = 1
    /\ net[i] = {"apivoid", "puppeteer", "scraperapi"}
    /\ fetch[i] = "settled"
    /\ proxy[i] = "settled"
    /\ ret[i].value.status = "success"

\* C16: every page opened by a fetch is closed on every exit path of the
\* fetch: a normal return, an HTTP-error return, an exception during the
\* navigation or the extraction, and an exception while the new page is
\* being configured (setRequestInterception).
C16_PageClosedOnEveryExit ==
  \A i \in DOMAIN at : at[i] = "done" => page[i] # "open"

\* C17: when the deadline wins the race against the primary render, the
\* fetch that lost is cancelled and its page released: once the task has
\* reached its terminal state, no page opened for it is still open.
C17_NoPageOpenAfterDeadline ==
  \A i \in Tasks : (expired[i] = "render" /\ Ended(i)) => page[i] # "open"

\* C18: the browser is launched under a single-flight guard: however many
\* callers of getBrowser there are, the warm-up and the fetches in flight,
\* puppeteer.launch is called at most once and every caller gets the promise
\* of that one launch.
C18_LaunchedAtMostOnce ==
  /\ launches <= 1
  /\ \A c \in DOMAIN handle : handle[c] # 0 => handle[c] = 1 /\ browserPromise.id = 1

\* the warm-up and two fetches wait for the same launch, which is pending
C18_Witness ==
  /\ launches = 1
  /\ browserPromise.state = "pending"
  /\ warm = "getBrowser"
  /\ Len(unique) = 2
  /\ at[1] = "getBrowser"
  /\ at[2] = "getBrowser"
  /\ \A c \in DOMAIN handle : handle[c] = 1

\* C19: one deadline, started before the primary render, bounds the render
\* and the fallback together: the time a task has spent since its render was
\* called never exceeds the per-task limit of 60 s.
C19_OneDeadlineForBothStages ==
  \A i \in Tasks :
    fetch[i] # "none" =>
      (IF Ended(i) THEN endedAt[i] ELSE now) - began[i] <= PER_URL_TIMEOUT_MS

\* the limiter's counters agree with the tasks: the queue holds the tasks
\* not yet started, in the order of the deduplicated input, behind the tasks
\* that were started
QueueInOrder ==
  /\ active \in 0..CONCURRENCY
  /\ active = Cardinality(InFlight)
  /\ q # <<>> => active = CONCURRENCY
  /\ \A k \in 1..Len(q) : pc[q[k]] = "queued"
  /\ \A i \in Tasks : pc[i] = "queued" => \E k \in 1..Len(q) : q[k] = i
  /\ \A k \in 1..(Len(q) - 1) : q[k] < q[k + 1]
  /\ \A i \in Tasks : pc[i] # "queued" => \A j \in 1..(i - 1) : pc[j] # "queued"

\* a task leaves the queue from its head, in the turn in which a running
\* task settles
StartsOnSettle ==
  \A i \in DOMAIN pc :
    (pc[i] = "queued" /\ pc'[i] # "queued") =>
      /\ i = Head(q)
      /\ q' = Tail(q)
      /\ \E j \in DOMAIN pc : pc[j] = "returned" /\ pc'[j] = "settled"

\* C20: the tasks beyond the concurrency bound wait in a FIFO queue: tasks
\* start in the order of the deduplicated input, a queued task starts at the
\* moment a running task settles, and no task waits while fewer than 2 are
\* running (0 <= active <= 2, and a queue that is not empty implies
\* active = 2).
C20_FifoQueue == [](QueueInOrder) /\ [][StartsOnSettle]_vars

\* the third of three tasks was started when the first settled, the second
\* still rendering
C20_Witness ==
  /\ Len(unique) = 3
  /\ pc[1] = "settled"
  /\ pc[2] = "render"
  /\ pc[3] = "apivoid"
  /\ starts[3] = 1
  /\ q = <<>>
  /\ active = 2

LastTry(i) == tries[i][Len(tries[i])]

\* the extraction of task i is over and succeeded, resp. failed
Extracted(i) == at[i] = "done" /\ Len(tries[i]) > 0 /\ LastTry(i) = ""

ExtractionFailed(i) == at[i] = "done" /\ Len(tries[i]) > 0 /\ LastTry(i) # ""

AttemptsJustified ==
  \A i \in DOMAIN tries :
    /\ Len(tries[i]) <= ExtractAttempts
    /\ \A k \in 1..(Len(tries[i]) - 1) : Transient(tries[i][k])
    /\ at[i] = "settling" => (Len(tries[i]) > 0 /\ Transient(LastTry(i)))
    /\ at[i] = "extract" => Len(tries[i]) < ExtractAttempts
    /\ ExtractionFailed(i) =>
         /\ Ended(i)
         /\ ret[i].state = "fulfilled"
         /\ ret[i].value.status = "failure"
         /\ ret[i].value.failure_reason = "offline_on_puppeteer"
    /\ \A j \in DOMAIN tries :
         (Extracted(i) /\ Extracted(j) /\ browserRun[i] = browserRun[j]
            /\ pc[i] = "returned" /\ pc[j] = "returned"
            /\ expired[i] = "none" /\ expired[j] = "none") =>
           /\ pptr[i] = pptr[j]
           /\ proxy[i] = "none" <=> proxy[j] = "none"
           /\ proxy[i] = "none" =>
                /\ ret[i].value.status = ret[j].value.status
                /\ ret[i].value.scraped_text = ret[j].value.scraped_text

AttemptsInOrder ==
  \A i \in DOMAIN tries :
    (i \in DOMAIN tries' /\ tries'[i] # tries[i] /\ tries'[i] # <<>>) =>
      LET msg == tries'[i][Len(tries'[i])]
      IN /\ at[i] = "extract"
         /\ tries'[i] = Append(tries[i], msg)
         /\ at'[i] = (IF Transient(msg) THEN "settling" ELSE "closing")

\* C22: the extraction makes at most 2 attempts; an attempt that throws a
\* transient error (execution context destroyed, context not found) is
\* followed by the settle wait and, if it was the first, by a second
\* attempt; any other error, and a successful read, ends the extraction at
\* once; whenever the extraction failed the task ends as
\* Failure(offline_on_puppeteer); and two tasks whose pages are alike and
\* whose extractions succeeded get the same value from the fetch and, when
\* it is not flagged, the same status and text, whatever the attempt that
\* succeeded.
C22_ExtractionRetriedOnce == [](AttemptsJustified) /\ [][AttemptsInOrder]_vars

\* two tasks on the same page: one read it at once, the other on its retry
C22_Witness ==
  /\ Len(unique) = 2
  /\ tries[1] = <<"">>
  /\ tries[2] = <<ContextDestroyed, "">>
  /\ Extracted(1) /\ Extracted(2)
  /\ browserRun[1] = browserRun[2]
  /\ pc[1] = "returned" /\ pc[2] = "returned"
  /\ proxy[1] = "none" /\ proxy[2] = "none"
  /\ ret[1].value.status = "success"
  /\ ret[2].value.status = "success"

LaunchFailed == browserPromise.state = "rejected"

FailedLaunchFailsRenders ==
  LaunchFailed =>
    /\ launches = 1
    /\ \A c \in DOMAIN handle : handle[c] \in {0, 1}
    /\ \A i \in Tasks :
         /\ at[i] \in {"none", "getBrowser", "done"}
         /\ page[i] = "none"
         /\ proxy[i] = "none"
         /\ ~(ret[i].state = "fulfilled" /\ ret[i].value.status = "success")
         /\ at[i] = "done" =>
              /\ Ended(i)
              /\ ret[i] = Fulfilled(Failure(unique[i], "offline_on_puppeteer",
                                            IF expired[i] = "render" THEN "timeout"
                                            ELSE "Failed to launch the browser process!"))

FailedLaunchKept ==
  LaunchFailed => (browserPromise' = browserPromise /\ launches' = launches)

\* C23: a failed browser launch is sticky: once the launch has failed the
\* kept promise stays the rejected one and no call of getBrowser launches
\* again; no page is opened and no task succeeds or reaches the fallback;
\* and every task whose primary render was called ends as
\* Failure(offline_on_puppeteer).
C23_FailedLaunchSticky == [](FailedLaunchFailsRenders) /\ [][FailedLaunchKept]_vars

\* the launch failed under the warm-up; both tasks of a later batch passed
\* the reputation check and ended on the failed launch
C23_Witness ==
  /\ LaunchFailed
  /\ warm = "done"
  /\ launches = 1
  /\ Len(unique) = 2
  /\ \A i \in Tasks :
       /\ at[i] = "done"
       /\ expired[i] = "none"
       /\ pc[i] = "settled"
       /\ ret[i] = Fulfilled(Failure(unique[i], "offline_on_puppeteer",
                                     "Failed to launch the browser process!"))
  /\ response.code = "200"
====
